---- MODULE Spec2Model ----
(***************************************************************************)
(* A model of the bayespam classifier (src/src/classifier.rs): the         *)
(* tokenizer load_word_list, the token table with its train operations,    *)
(* the per-word rating rate_words and the aggregation score / identify.    *)
(*                                                                         *)
(* A string is a sequence of characters, a character a one-element name    *)
(* ("a", " ", or "U+2102" for a character outside ASCII).  An f32 is       *)
(* modelled by the real number it approximates: a rating is a reduced      *)
(* fraction <<n, d>>, a score a pair of naturals <<num, den>> written as   *)
(* digit sequences, so that rounding is not part of the model.             *)
(***************************************************************************)
EXTENDS Integers, Sequences, FiniteSets, TLC

VARIABLES
    token_table,    \* Model.token_table: token -> Counter [ham, spam]
    spam_trained,   \* history: message -> number of train_spam calls with it
    ham_trained,    \* history: message -> number of train_ham calls with it
    last,           \* the last call on the classifier and what it returned
    text,           \* the message handed to load_word_list (tokenizer runs)
    words           \* the list load_word_list returned for text

vars == <<token_table, spam_trained, ham_trained, last, text, words>>

(***************************************************************************)
(* Bounds of the model.                                                    *)
(***************************************************************************)
\* Longest message typed character by character in the tokenizer runs.
MaxLen == 4
\* Largest number of train calls on one classifier.
MaxTrain == 2

(***************************************************************************)
(* Characters: the char predicates and conversions load_word_list uses.    *)
(***************************************************************************)
AsciiLower ==
    <<"a","b","c","d","e","f","g","h","i","j","k","l","m",
      "n","o","p","q","r","s","t","u","v","w","x","y","z">>

AsciiUpper ==
    <<"A","B","C","D","E","F","G","H","I","J","K","L","M",
      "N","O","P","Q","R","S","T","U","V","W","X","Y","Z">>

Range(s) == {s[i] : i \in DOMAIN s}

\* U+00E9 (e acute) is a lowercase letter outside ASCII.
Lowercase == Range(AsciiLower) \cup {"U+00E9"}

is_lowercase(c) == c \in Lowercase

\* U+2102 (double-struck capital C) and U+0130 (capital I with dot above)
\* are uppercase letters outside ASCII.
Uppercase == Range(AsciiUpper) \cup {"U+2102", "U+0130"}

is_uppercase(c) == c \in Uppercase

is_whitespace(c) == c \in {" ", "\t"}

\* char::to_lowercase: U+2102 has no lowercase form and maps to itself,
\* U+0130 maps to the two characters "i", U+0307 (combining dot above).
LowercaseMapping ==
    [c \in Range(AsciiUpper) |->
        <<AsciiLower[CHOOSE i \in DOMAIN AsciiUpper : AsciiUpper[i] = c]>>]
    @@ ("U+0130" :> <<"i", "U+0307">>)

char_to_lowercase(c) ==
    IF c \in DOMAIN LowercaseMapping THEN LowercaseMapping[c] ELSE <<c>>

\* The number of bytes of a character in UTF-8 (str::len counts bytes).
len_utf8(c) ==
    IF c \in {"U+00E9", "U+0130", "U+0307"} THEN 2
    ELSE IF c = "U+2102" THEN 3
    ELSE 1

(***************************************************************************)
(* The tokenizer, Classifier::load_word_list.                              *)
(***************************************************************************)
\* The characters msg.replace(..., "") keeps.
Kept(c) == is_lowercase(c) \/ is_uppercase(c) \/ is_whitespace(c) \/ c = ":"

replace(msg) == SelectSeq(msg, Kept)

RECURSIVE trim_start(_)
trim_start(s) ==
    IF s # <<>> /\ is_whitespace(Head(s)) THEN trim_start(Tail(s)) ELSE s

RECURSIVE trim_end(_)
trim_end(s) ==
    IF s # <<>> /\ is_whitespace(s[Len(s)])
    THEN trim_end(SubSeq(s, 1, Len(s) - 1))
    ELSE s

trim(s) == trim_end(trim_start(s))

\* split_whitespace: the maximal runs of non-whitespace characters, in order.
\* The string is split in two halves; a run that crosses the middle is the
\* last run of the left half joined to the first run of the right half.
RECURSIVE split_whitespace(_)
split_whitespace(s) ==
    IF Len(s) = 0 THEN <<>>
    ELSE IF Len(s) = 1 THEN IF is_whitespace(s[1]) THEN <<>> ELSE <<s>>
    ELSE LET mid == Len(s) \div 2
             l == split_whitespace(SubSeq(s, 1, mid))
             r == split_whitespace(SubSeq(s, mid + 1, Len(s)))
         IN  IF is_whitespace(s[mid]) \/ is_whitespace(s[mid + 1])
             THEN l \o r
             ELSE SubSeq(l, 1, Len(l) - 1) \o <<l[Len(l)] \o Head(r)>> \o Tail(r)

\* to_lowercase left out: the word as it is.
case_kept(s) == s

RECURSIVE to_lowercase(_)
to_lowercase(s) ==
    IF s = <<>> THEN <<>>
    ELSE char_to_lowercase(Head(s)) \o to_lowercase(Tail(s))

RECURSIVE len(_)
len(s) == IF s = <<>> THEN 0 ELSE len_utf8(Head(s)) + len(Tail(s))

\* The filter .filter(|s| s.len() > 2).
LongEnough(s) == len(s) > 2

\* The .map(|s| s.to_lowercase()) over the split words.
lowercased(list) == [i \in DOMAIN list |-> to_lowercase(list[i])]

load_word_list(msg) ==
    SelectSeq(lowercased(split_whitespace(trim(replace(msg)))), LongEnough)

(***************************************************************************)
(* Messages.                                                               *)
(***************************************************************************)
\* Don't forget our special promotion: -30% on men shoes, only today!
TestSpam ==
    <<"D","o","n","'","t"," ","f","o","r","g","e","t"," ","o","u","r"," ",
      "s","p","e","c","i","a","l"," ","p","r","o","m","o","t","i","o","n",
      ":"," ","-","3","0","%"," ","o","n"," ","m","e","n"," ","s","h","o",
      "e","s",","," ","o","n","l","y"," ","t","o","d","a","y","!">>

\* Hi Bob, don't forget our meeting today at 4pm.
TestHam ==
    <<"H","i"," ","B","o","b",","," ","d","o","n","'","t"," ","f","o","r",
      "g","e","t"," ","o","u","r"," ","m","e","e","t","i","n","g"," ","t",
      "o","d","a","y"," ","a","t"," ","4","p","m",".">>

\* Lose up to 19% weight. Special promotion on our new weightloss.
QuerySpam ==
    <<"L","o","s","e"," ","u","p"," ","t","o"," ","1","9","%"," ","w","e",
      "i","g","h","t","."," ","S","p","e","c","i","a","l"," ","p","r","o",
      "m","o","t","i","o","n"," ","o","n"," ","o","u","r"," ","n","e","w",
      " ","w","e","i","g","h","t","l","o","s","s",".">>

\* Hi Bob, can you send me your machine learning homework?
QueryHam ==
    <<"H","i"," ","B","o","b",","," ","c","a","n"," ","y","o","u"," ","s",
      "e","n","d"," ","m","e"," ","y","o","u","r"," ","m","a","c","h","i",
      "n","e"," ","l","e","a","r","n","i","n","g"," ","h","o","m","e","w",
      "o","r","k","?">>

\* !!! 123 @@@
NoTokens ==
    <<"!","!","!"," ","1","2","3"," ","@","@","@">>

Empty == <<>>

Aaa == <<"a","a","a">>

\* s repeated n times.
Rep(s, n) == [i \in 1..(n * Len(s)) |-> s[((i - 1) % Len(s)) + 1]]

\* "aaa" followed by 99 times " bbb": a message of 100 tokens.
LongHam == Aaa \o Rep(<<" ","b","b","b">>, 99)

SpecialBob == <<"s","p","e","c","i","a","l"," ","b","o","b"," ">>

\* 9 times "special bob " and "our aaa": 20 tokens.
Exactly20 == Rep(SpecialBob, 9) \o <<"o","u","r"," ","a","a","a">>

\* 10 times "special bob " and "our": 21 tokens.
Mixed21 == Rep(SpecialBob, 10) \o <<"o","u","r">>

\* 11 times "special bob " and "our aaa xyz": 25 tokens.
Mixed25 ==
    Rep(SpecialBob, 11) \o <<"o","u","r"," ","a","a","a"," ","x","y","z">>

\* The messages of the model, by name.
Messages ==
    [TestSpam |-> TestSpam, TestHam |-> TestHam, QuerySpam |-> QuerySpam,
     QueryHam |-> QueryHam, NoTokens |-> NoTokens, Empty |-> Empty,
     Aaa |-> Aaa, LongHam |-> LongHam, Exactly20 |-> Exactly20,
     Mixed21 |-> Mixed21, Mixed25 |-> Mixed25]

\* The messages the model trains with, and those it scores.
TrainMsgs == {"TestSpam", "TestHam", "Aaa", "LongHam"}

ScoreMsgs ==
    {"QuerySpam", "QueryHam", "NoTokens", "Empty", "Aaa", "Exactly20",
     "Mixed21", "Mixed25"}

\* The characters typed in the tokenizer runs: one or two of each class.
Alphabet == {"a", "B", "1", " ", ":", "U+00E9", "U+2102", "U+0130"}

\* The messages tokenized whole in the tokenizer runs.
TokSamples == {"TestSpam", "TestHam", "QuerySpam", "QueryHam", "NoTokens"}

\* load_word_list on the messages of the model, computed once for each.
WordLists == [msg \in Range(Messages) |-> load_word_list(msg)]

word_list(msg) == WordLists[msg]

(***************************************************************************)
(* Arithmetic.  A rating is a fraction <<n, d>> of naturals in lowest      *)
(* terms, d > 0.  A product of ratings is a natural number written as its  *)
(* sequence of digits in base 1000, least significant first, without       *)
(* leading zeros (the empty sequence is 0).                                *)
(***************************************************************************)
RECURSIVE GCD(_, _)
GCD(a, b) == IF b = 0 THEN a ELSE GCD(b, a % b)

Frac(n, d) == LET g == GCD(n, d) IN <<n \div g, d \div g>>

FracAdd(x, y) == Frac(x[1] * y[2] + y[1] * x[2], x[2] * y[2])

FracDiv(x, y) == Frac(x[1] * y[2], x[2] * y[1])

\* 1.0 - x
FracAlt(x) == Frac(x[2] - x[1], x[2])

\* x < y (the denominators are positive)
FracLess(x, y) == x[1] * y[2] < y[1] * x[2]

\* f32::max
FracMax(x, y) == IF FracLess(x, y) THEN y ELSE x

RECURSIVE BigOfNat(_)
BigOfNat(n) == IF n = 0 THEN <<>> ELSE <<n % 1000>> \o BigOfNat(n \div 1000)

RECURSIVE BigMulCarry(_, _, _)
BigMulCarry(x, k, carry) ==
    IF x = <<>> THEN BigOfNat(carry)
    ELSE <<(Head(x) * k + carry) % 1000>>
         \o BigMulCarry(Tail(x), k, (Head(x) * k + carry) \div 1000)

\* x * k for a natural k below 1,000,000
BigMul(x, k) == IF k = 0 THEN <<>> ELSE BigMulCarry(x, k, 0)

RECURSIVE BigAddCarry(_, _, _)
BigAddCarry(x, y, carry) ==
    IF x = <<>> /\ y = <<>> THEN BigOfNat(carry)
    ELSE LET a == IF x = <<>> THEN 0 ELSE Head(x)
             b == IF y = <<>> THEN 0 ELSE Head(y)
         IN  <<(a + b + carry) % 1000>>
             \o BigAddCarry(IF x = <<>> THEN x ELSE Tail(x),
                            IF y = <<>> THEN y ELSE Tail(y),
                            (a + b + carry) \div 1000)

BigAdd(x, y) == BigAddCarry(x, y, 0)

\* x < y
RECURSIVE BigLess(_, _)
BigLess(x, y) ==
    IF Len(x) # Len(y) THEN Len(x) < Len(y)
    ELSE IF x = <<>> THEN FALSE
    ELSE IF x[Len(x)] # y[Len(y)] THEN x[Len(x)] < y[Len(y)]
    ELSE BigLess(SubSeq(x, 1, Len(x) - 1), SubSeq(y, 1, Len(y) - 1))

(***************************************************************************)
(* Constants of the classifier.                                            *)
(***************************************************************************)
INIT_RATING == <<2, 5>>

SPAM_PROB_THRESHOLD == <<4, 5>>

\* The literals 0.99 and 0.01 of rate_words.
SpamOnlyRating == <<99, 100>>

HamOnlyRating == <<1, 100>>

(***************************************************************************)
(* The token table and training.                                           *)
(***************************************************************************)
\* token_table.entry(word).or_default()
or_default(table, word) ==
    IF word \in DOMAIN table THEN table
    ELSE table @@ (word :> [ham |-> 0, spam |-> 0])

\* add_spam with the slip `counter.spam = 1`.
add_spam_assigned(table, word) ==
    [or_default(table, word) EXCEPT ![word].spam = 1]

\* add_spam with the increment forgotten: the entry is only created.
add_spam_forgotten(table, word) == or_default(table, word)

\* add_ham with the slip `*counter = Counter { ham: 1, spam: 0 }`.
add_ham_replaced(table, word) ==
    [or_default(table, word) EXCEPT ![word] = [ham |-> 1, spam |-> 0]]

\* counter.spam += 1 on the entry of word
add_spam(table, word) ==
    [or_default(table, word) EXCEPT ![word].spam = @ + 1]

\* counter.ham += 1 on the entry of word
add_ham(table, word) ==
    [or_default(table, word) EXCEPT ![word].ham = @ + 1]

\* The loop of train_spam over the word list: the first half of the list,
\* then the second half on the table the first half left.  The test on that
\* table (never empty, a word was just added) makes TLC compute it before
\* the second half is entered.
RECURSIVE train_spam_words(_, _)
train_spam_words(table, ws) ==
    IF ws = <<>> THEN table
    ELSE IF Len(ws) = 1 THEN add_spam(table, ws[1])
    ELSE LET first == train_spam_words(table, SubSeq(ws, 1, Len(ws) \div 2))
         IN  IF DOMAIN first = {} THEN first
             ELSE train_spam_words(first, SubSeq(ws, Len(ws) \div 2 + 1, Len(ws)))

RECURSIVE train_ham_words(_, _)
train_ham_words(table, ws) ==
    IF ws = <<>> THEN table
    ELSE IF Len(ws) = 1 THEN add_ham(table, ws[1])
    ELSE LET first == train_ham_words(table, SubSeq(ws, 1, Len(ws) \div 2))
         IN  IF DOMAIN first = {} THEN first
             ELSE train_ham_words(first, SubSeq(ws, Len(ws) \div 2 + 1, Len(ws)))

train_spam(table, msg) == train_spam_words(table, word_list(msg))

train_ham(table, msg) == train_ham_words(table, word_list(msg))

RECURSIVE SumSpam(_, _)
SumSpam(table, S) ==
    IF S = {} THEN 0
    ELSE LET w == CHOOSE x \in S : TRUE
         IN  table[w].spam + SumSpam(table, S \ {w})

RECURSIVE SumHam(_, _)
SumHam(table, S) ==
    IF S = {} THEN 0
    ELSE LET w == CHOOSE x \in S : TRUE
         IN  table[w].ham + SumHam(table, S \ {w})

spam_total_count(table) == SumSpam(table, DOMAIN table)

ham_total_count(table) == SumHam(table, DOMAIN table)

(***************************************************************************)
(* Rating and scoring.                                                     *)
(***************************************************************************)
\* The branch of the closure of rate_words that decides the rating of word.
rate_branch(table, word) ==
    IF word \in DOMAIN table
    THEN IF table[word].spam > 0 /\ table[word].ham = 0 THEN "spam_only"
         ELSE IF table[word].spam = 0 /\ table[word].ham > 0 THEN "ham_only"
         ELSE IF spam_total_count(table) > 0 /\ ham_total_count(table) > 0
              THEN "both"
              ELSE "fall_through"
    ELSE "absent"

\* branch_rating with the literals 0.99 and 0.01 exchanged.
branch_rating_exchanged(branch, table, word) ==
    IF branch = "spam_only" THEN HamOnlyRating
    ELSE IF branch = "ham_only" THEN SpamOnlyRating
    ELSE IF branch = "both"
         THEN LET ham_prob == Frac(table[word].ham, ham_total_count(table))
                  spam_prob == Frac(table[word].spam, spam_total_count(table))
              IN  FracMax(FracDiv(spam_prob, FracAdd(ham_prob, spam_prob)),
                          HamOnlyRating)
         ELSE INIT_RATING

\* branch_rating with the literals 1.0 and 0.0 for 0.99 and 0.01.
branch_rating_certain(branch, table, word) ==
    IF branch = "spam_only" THEN <<1, 1>>
    ELSE IF branch = "ham_only" THEN <<0, 1>>
    ELSE IF branch = "both"
         THEN LET ham_prob == Frac(table[word].ham, ham_total_count(table))
                  spam_prob == Frac(table[word].spam, spam_total_count(table))
              IN  FracMax(FracDiv(spam_prob, FracAdd(ham_prob, spam_prob)),
                          HamOnlyRating)
         ELSE INIT_RATING

\* The value the closure returns on each branch.
branch_rating(branch, table, word) ==
    IF branch = "spam_only" THEN SpamOnlyRating
    ELSE IF branch = "ham_only" THEN HamOnlyRating
    ELSE IF branch = "both"
         THEN LET ham_prob == Frac(table[word].ham, ham_total_count(table))
                  spam_prob == Frac(table[word].spam, spam_total_count(table))
              IN  FracMax(FracDiv(spam_prob, FracAdd(ham_prob, spam_prob)),
                          HamOnlyRating)
         ELSE INIT_RATING

\* The rating of one word.
rate_word(table, word) == branch_rating(rate_branch(table, word), table, word)

\* The closure mapped over the word list, as a list.
RECURSIVE rate_list(_, _)
rate_list(table, ws) ==
    IF ws = <<>> THEN <<>>
    ELSE IF Len(ws) = 1 THEN <<rate_word(table, ws[1])>>
    ELSE rate_list(table, SubSeq(ws, 1, Len(ws) \div 2))
         \o rate_list(table, SubSeq(ws, Len(ws) \div 2 + 1, Len(ws)))

rate_words(table, msg) == rate_list(table, word_list(msg))

\* The branch taken for each word of the list.
RECURSIVE branch_list(_, _)
branch_list(table, ws) ==
    IF ws = <<>> THEN <<>>
    ELSE IF Len(ws) = 1 THEN <<rate_branch(table, ws[1])>>
    ELSE branch_list(table, SubSeq(ws, 1, Len(ws) \div 2))
         \o branch_list(table, SubSeq(ws, Len(ws) \div 2 + 1, Len(ws)))

rate_branches(table, msg) == branch_list(table, word_list(msg))

\* sort_unstable_by(partial_cmp): the ratings in ascending order (a merge
\* sort; equal ratings are equal fractions, so every sort gives this list).
RECURSIVE merge(_, _)
merge(a, b) ==
    IF a = <<>> THEN b
    ELSE IF b = <<>> THEN a
    ELSE IF FracLess(Head(b), Head(a)) THEN <<Head(b)>> \o merge(a, Tail(b))
    ELSE <<Head(a)>> \o merge(Tail(a), b)

RECURSIVE sort(_)
sort(s) ==
    IF Len(s) <= 1 THEN s
    ELSE merge(sort(SubSeq(s, 1, Len(s) \div 2)),
               sort(SubSeq(s, Len(s) \div 2 + 1, Len(s))))

\* kept_ratings without the sort: the 10 first and the 10 last ratings in
\* message order.
kept_unsorted(ratings) ==
    IF Len(ratings) > 20
    THEN SubSeq(ratings, 1, 10)
         \o SubSeq(ratings, Len(ratings) - 10 + 1, Len(ratings))
    ELSE ratings

\* The ratings score multiplies: all of them, or for more than 20 the 10 first
\* and the 10 last of the sorted list.
kept_ratings(ratings) ==
    IF Len(ratings) > 20
    THEN LET length == Len(ratings)
             sorted == sort(ratings)
         IN  SubSeq(sorted, 1, 10) \o SubSeq(sorted, length - 10 + 1, length)
    ELSE ratings

\* ratings.iter().product(): the numerators multiplied.
RECURSIVE product(_)
product(rs) ==
    IF rs = <<>> THEN BigOfNat(1) ELSE BigMul(product(Tail(rs)), Head(rs)[1])

\* ratings.iter().map(|x| 1.0 - x).product(): 1.0 - n/d is (d - n)/d, again
\* in lowest terms; the numerators multiplied.
RECURSIVE alt_product(_)
alt_product(rs) ==
    IF rs = <<>> THEN BigOfNat(1)
    ELSE BigMul(alt_product(Tail(rs)), FracAlt(Head(rs))[1])

\* product / (product + alt_product).  The two products are fractions over
\* the same denominator, the product of the ratings' denominators, which
\* cancels in the quotient and is not computed.  A denominator of zero is
\* the f32 NaN of 0.0 / 0.0.
quotient(prod, alt_prod) == [num |-> prod, den |-> BigAdd(prod, alt_prod)]

combine(rs) == quotient(product(rs), alt_product(rs))

\* score_ratings without the arm `0 => return 0.0`.
score_ratings_no_empty_arm(ratings) ==
    [value |-> combine(kept_ratings(ratings)), divided |-> TRUE]

\* The match of score on the ratings: the value returned and whether the
\* division was performed.
score_ratings(ratings) ==
    IF Len(ratings) = 0
    THEN [value |-> [num |-> <<>>, den |-> BigOfNat(1)], divided |-> FALSE]
    ELSE [value |-> combine(kept_ratings(ratings)), divided |-> TRUE]

\* Classifier::score, with the ratings it was computed from.
with_ratings(ratings, returned) ==
    [value |-> returned.value, divided |-> returned.divided, ratings |-> ratings]

score_call(ratings) == with_ratings(ratings, score_ratings(ratings))

score(table, msg) == score_call(rate_words(table, msg))

\* value > SPAM_PROB_THRESHOLD (a comparison with NaN is false)
above_threshold(value) ==
    /\ value.den # <<>>
    /\ BigLess(BigMul(value.den, SPAM_PROB_THRESHOLD[1]),
               BigMul(value.num, SPAM_PROB_THRESHOLD[2]))

identify(table, msg) == above_threshold(score(table, msg).value)

(***************************************************************************)
(* The state machine: one classifier, trained and queried.                 *)
(***************************************************************************)
NoCall == [op |-> "new", msg |-> "", ratings |-> <<>>, branches |-> <<>>,
           value |-> [num |-> <<>>, den |-> BigOfNat(1)],
           divided |-> FALSE, is_spam |-> FALSE]

Trained(h) == LET RECURSIVE Sum(_)
                  Sum(S) == IF S = {} THEN 0
                            ELSE LET m == CHOOSE x \in S : TRUE
                                 IN  h[m] + Sum(S \ {m})
              IN  Sum(DOMAIN h)

\* Classifier::new()
Init ==
    /\ token_table = <<>>
    /\ spam_trained = [m \in TrainMsgs |-> 0]
    /\ ham_trained = [m \in TrainMsgs |-> 0]
    /\ last = NoCall
    /\ text = <<>>
    /\ words = <<>>

TrainSpam(m) ==
    /\ Trained(spam_trained) + Trained(ham_trained) < MaxTrain
    /\ token_table' = train_spam(token_table, Messages[m])
    /\ spam_trained' = [spam_trained EXCEPT ![m] = @ + 1]
    /\ last' = [NoCall EXCEPT !.op = "train_spam", !.msg = m]
    /\ UNCHANGED <<ham_trained, text, words>>

TrainHam(m) ==
    /\ Trained(spam_trained) + Trained(ham_trained) < MaxTrain
    /\ token_table' = train_ham(token_table, Messages[m])
    /\ ham_trained' = [ham_trained EXCEPT ![m] = @ + 1]
    /\ last' = [NoCall EXCEPT !.op = "train_ham", !.msg = m]
    /\ UNCHANGED <<spam_trained, text, words>>

Score(m) ==
    /\ LET returned == score(token_table, Messages[m]) IN
       last' = [op |-> "score", msg |-> m,
                ratings |-> returned.ratings,
                branches |-> rate_branches(token_table, Messages[m]),
                value |-> returned.value,
                divided |-> returned.divided,
                is_spam |-> FALSE]
    /\ UNCHANGED <<token_table, spam_trained, ham_trained, text, words>>

Identify(m) ==
    /\ LET returned == score(token_table, Messages[m]) IN
       last' = [op |-> "identify", msg |-> m,
                ratings |-> returned.ratings,
                branches |-> rate_branches(token_table, Messages[m]),
                value |-> returned.value,
                divided |-> returned.divided,
                is_spam |-> above_threshold(returned.value)]
    /\ UNCHANGED <<token_table, spam_trained, ham_trained, text, words>>

Next ==
    \/ \E m \in TrainMsgs : TrainSpam(m)
    \/ \E m \in TrainMsgs : TrainHam(m)
    \/ \E m \in ScoreMsgs : Score(m)
    \/ \E m \in ScoreMsgs : Identify(m)

Spec == Init /\ [][Next]_vars

(***************************************************************************)
(* The tokenizer alone: a message typed character by character, or one of  *)
(* the sample messages, and the word list load_word_list returns for it.   *)
(***************************************************************************)
Type(c) ==
    /\ Len(text) < MaxLen
    /\ text' = Append(text, c)
    /\ words' = load_word_list(text')
    /\ UNCHANGED <<token_table, spam_trained, ham_trained, last>>

Tokenize(m) ==
    /\ text' = Messages[m]
    /\ words' = load_word_list(Messages[m])
    /\ UNCHANGED <<token_table, spam_trained, ham_trained, last>>

TokNext ==
    \/ \E c \in Alphabet : Type(c)
    \/ \E m \in TokSamples : Tokenize(m)

SpecTok == Init /\ [][TokNext]_vars

(***************************************************************************)
(* Properties of the classifier (specification Spec).                      *)
(***************************************************************************)
IsQuery == last.op \in {"score", "identify"}

\* The token occurrences of the messages a history counts, duplicates
\* counted.
RECURSIVE Occurrences(_, _)
Occurrences(h, S) ==
    IF S = {} THEN 0
    ELSE LET m == CHOOSE x \in S : TRUE
         IN  h[m] * Len(word_list(Messages[m])) + Occurrences(h, S \ {m})

\* C1: after any sequence of train_spam / train_ham calls on a new classifier
\* spam_total_count() is the number of token occurrences of the messages
\* trained as spam and ham_total_count() that of the messages trained as ham
\* (so each call adds the number of tokens of its message to the total of its
\* own class and nothing to the other).
C1_TotalsCountTokens ==
    /\ spam_total_count(token_table) = Occurrences(spam_trained, TrainMsgs)
    /\ ham_total_count(token_table) = Occurrences(ham_trained, TrainMsgs)

\* A message with a repeated token was trained as ham after a spam message.
C1_Witness ==
    /\ spam_trained["TestSpam"] = 1
    /\ ham_trained["LongHam"] = 1
    /\ last.op = "train_ham"
    /\ ham_total_count(token_table) = 100
    /\ spam_total_count(token_table) = 9

\* C2: every rating rate_words computes is INIT_RATING or lies in
\* [0.01, 0.99].
C2_RatingsWithinBounds ==
    IsQuery =>
        \A i \in DOMAIN last.ratings :
            \/ last.ratings[i] = INIT_RATING
            \/ /\ ~FracLess(last.ratings[i], HamOnlyRating)
               /\ ~FracLess(SpamOnlyRating, last.ratings[i])

\* C3: the rating of each word follows the ordered policy: absent from the
\* table 0.4; spam > 0 and ham = 0 gives 0.99; spam = 0 and ham > 0 gives
\* 0.01; both > 0 with both totals > 0 gives
\* max(0.01, (spam/spam_total) / (ham/ham_total + spam/spam_total)), stated
\* here with s*H / (h*S + s*H) for that quotient.
C3_RatingPolicy ==
    IsQuery =>
        \A i \in DOMAIN last.ratings :
            LET w == word_list(Messages[last.msg])[i]
                r == last.ratings[i]
                S == spam_total_count(token_table)
                H == ham_total_count(token_table)
            IN  /\ w \notin DOMAIN token_table => r = <<2, 5>>
                /\ w \in DOMAIN token_table =>
                    LET s == token_table[w].spam
                        h == token_table[w].ham
                    IN  /\ (s > 0 /\ h = 0) => r = <<99, 100>>
                        /\ (s = 0 /\ h > 0) => r = <<1, 100>>
                        /\ (s > 0 /\ h > 0 /\ S > 0 /\ H > 0) =>
                              IF 100 * s * H < h * S + s * H
                              THEN r = <<1, 100>>
                              ELSE r[1] * (h * S + s * H) = r[2] * (s * H)

\* A message was rated whose words take each of the four cases.
C3_Witness ==
    /\ last.op = "score"
    /\ {"absent", "spam_only", "ham_only", "both"} \subseteq Range(last.branches)

\* How many of the ratings rs equal v, are below v, are above v.
Count(rs, v) == Cardinality({i \in DOMAIN rs : rs[i] = v})

Below(rs, v) == Cardinality({i \in DOMAIN rs : FracLess(rs[i], v)})

Above(rs, v) == Cardinality({i \in DOMAIN rs : FracLess(v, rs[i])})

Min(a, b) == IF a < b THEN a ELSE b

Max(a, b) == IF a < b THEN b ELSE a

\* How many ratings equal to v are among the 10 lowest and the 10 highest of
\* more than 20 ratings; of at most 20 ratings all are kept.
KeptCount(rs, v) ==
    IF Len(rs) > 20
    THEN Min(Count(rs, v), Max(0, 10 - Below(rs, v)))
         + Min(Count(rs, v), Max(0, 10 - Above(rs, v)))
    ELSE Count(rs, v)

RECURSIVE BigPow(_, _, _)
BigPow(x, k, e) == IF e = 0 THEN x ELSE BigPow(BigMul(x, k), k, e - 1)

\* The product over the values V of v (or of 1 - v) to the power of the
\* number of ratings equal to v that are kept.
RECURSIVE KeptProduct(_, _, _)
KeptProduct(rs, V, alt) ==
    IF V = {} THEN BigOfNat(1)
    ELSE LET v == CHOOSE x \in V : TRUE
         IN  BigPow(KeptProduct(rs, V \ {v}, alt),
                    IF alt THEN v[2] - v[1] ELSE v[1],
                    KeptCount(rs, v))

\* C4: with more than 20 ratings the score is the product-of-odds formula on
\* the 10 lowest and the 10 highest of them, taken as a multiset; with 1 to
\* 20 ratings it is the formula on all of them.
C4_TruncationToExtremes ==
    (IsQuery /\ Len(last.ratings) >= 1) =>
        /\ last.value.num = KeptProduct(last.ratings, Range(last.ratings), FALSE)
        /\ last.value.den =
              BigAdd(KeptProduct(last.ratings, Range(last.ratings), FALSE),
                     KeptProduct(last.ratings, Range(last.ratings), TRUE))

\* A message of 25 tokens with three different ratings, not in ascending
\* order, was scored.
C4_Witness ==
    /\ last.op = "score"
    /\ Len(last.ratings) = 25
    /\ Cardinality(Range(last.ratings)) >= 3
    /\ FracLess(last.ratings[2], last.ratings[1])

\* C5: score returns a value in [0, 1]: the denominator
\* product + alt_product is not zero and 0 <= product <= product + alt_product.
C5_ScoreInUnitInterval ==
    IsQuery =>
        /\ last.value.den # <<>>
        /\ ~BigLess(last.value.den, last.value.num)

\* A message of 21 tokens with ratings 0.01 and 0.99 was scored.
C5_Witness ==
    /\ last.op = "identify"
    /\ last.divided
    /\ Len(last.ratings) = 21
    /\ {<<1, 100>>, <<99, 100>>} \subseteq Range(last.ratings)

\* The classifier was trained with the spam example and the ham example of
\* the test test_new, once each, and with nothing else.
TrainedAsInTest ==
    /\ spam_trained = [m \in TrainMsgs |-> IF m = "TestSpam" THEN 1 ELSE 0]
    /\ ham_trained = [m \in TrainMsgs |-> IF m = "TestHam" THEN 1 ELSE 0]

\* C6: after train_spam and train_ham with the examples of test_new the
\* typical spam message is identified as spam (its score is above 0.8) and
\* the typical ham message is not (its score is at most 0.8).
C6_TestNewScenario ==
    (TrainedAsInTest /\ IsQuery) =>
        /\ last.msg = "QuerySpam" =>
              /\ BigLess(BigMul(last.value.den, 4), BigMul(last.value.num, 5))
              /\ last.op = "identify" => last.is_spam
        /\ last.msg = "QueryHam" =>
              /\ ~BigLess(BigMul(last.value.den, 4), BigMul(last.value.num, 5))
              /\ last.op = "identify" => ~last.is_spam

C6_Witness ==
    /\ TrainedAsInTest
    /\ last.op = "identify"
    /\ last.msg = "QuerySpam"
    /\ last.is_spam

\* C7: a message from which no token survives gets the score 0.0 without a
\* division, and identify returns false, whatever the model holds.
C7_NoTokenScoreZero ==
    (IsQuery /\ word_list(Messages[last.msg]) = <<>>) =>
        /\ last.value = [num |-> <<>>, den |-> <<1>>]
        /\ ~last.divided
        /\ ~last.is_spam
        /\ ~identify(token_table, Messages[last.msg])

C7_Witness ==
    /\ last.op = "identify"
    /\ last.msg = "NoTokens"
    /\ ~last.is_spam
    /\ DOMAIN token_table # {}

\* C8: from step to step no counter decreases and no token leaves the
\* table, and score and identify leave the table as it is.
C8_CountersOnlyGrow ==
    [][/\ \A w \in DOMAIN token_table :
              /\ w \in DOMAIN token_table'
              /\ token_table'[w].ham >= token_table[w].ham
              /\ token_table'[w].spam >= token_table[w].spam
       /\ last'.op \in {"score", "identify"} => token_table' = token_table
      ]_vars

\* A query on a table in which a word was counted twice as spam and a word
\* in both classes.
C8_Witness ==
    /\ IsQuery
    /\ \E w \in DOMAIN token_table : token_table[w].spam >= 2
    /\ \E w \in DOMAIN token_table :
          token_table[w].spam >= 1 /\ token_table[w].ham >= 1

\* C10: every token of the table was counted at least once, a counter with
\* ham > 0 and spam > 0 comes with both totals > 0, and no rating of a word
\* of the table falls through to INIT_RATING.
C10_PresentMeansTrained ==
    /\ \A w \in DOMAIN token_table :
          /\ token_table[w].ham + token_table[w].spam >= 1
          /\ (token_table[w].ham > 0 /\ token_table[w].spam > 0) =>
                /\ ham_total_count(token_table) > 0
                /\ spam_total_count(token_table) > 0
    /\ IsQuery => "fall_through" \notin Range(last.branches)

\* A word counted in both classes was rated.
C10_Witness ==
    /\ last.op = "identify"
    /\ "both" \in Range(last.branches)
    /\ \E w \in DOMAIN token_table :
          token_table[w].ham > 0 /\ token_table[w].spam > 0

(***************************************************************************)
(* Properties of the tokenizer (specification SpecTok).                    *)
(***************************************************************************)
\* The letters among the characters of the model.
IsLetter(c) == is_lowercase(c) \/ is_uppercase(c)

\* The places of the cleaned text s where a run of non-whitespace characters
\* starts, and where the run that starts at i ends.
RunStarts(s) ==
    {i \in DOMAIN s : ~is_whitespace(s[i]) /\ (i = 1 \/ is_whitespace(s[i - 1]))}

RunEnd(s, i) ==
    CHOOSE j \in i..Len(s) :
        /\ \A k \in i..j : ~is_whitespace(s[k])
        /\ j = Len(s) \/ is_whitespace(s[j + 1])

\* The n-th run of the cleaned text s, in lowercase.
NthRun(s, n) ==
    LET i == CHOOSE x \in RunStarts(s) :
                 Cardinality({y \in RunStarts(s) : y < x}) = n - 1
    IN  to_lowercase(SubSeq(s, i, RunEnd(s, i)))

\* The runs of the cleaned text in message order, those of at most 2 bytes
\* left out and duplicates kept.
RunsInOrder(s) ==
    SelectSeq([n \in 1..Cardinality(RunStarts(s)) |-> NthRun(s, n)], LongEnough)

\* The tokens are the words of the message without its deleted characters
\* (no separator is put in their place), in message order, duplicates kept.
TokensInMessageOrder == words = RunsInOrder(replace(text))

\* C9: for every message, every token is longer than 2 characters, has no
\* uppercase letter and consists only of letters and ':' (deleted characters
\* leave no separator, so a colon stays on its word); the tokens are in
\* message order with duplicates kept.
C9_TokensLowercaseLetters ==
    /\ \A i \in DOMAIN words :
          /\ Len(words[i]) > 2
          /\ \A c \in Range(words[i]) :
                ~is_uppercase(c) /\ (IsLetter(c) \/ c = ":")
    /\ TokensInMessageOrder
====
